---- MODULE Spec2Model ----
(***************************************************************************)
(* Model of src/src/utils/analytics.ts: the Google Analytics (gtag) and    *)
(* RudderStack forwarding helpers, the enriched context, the first-touch   *)
(* record in localStorage, the rage-click counters and the visibility      *)
(* timer.                                                                  *)
(*                                                                         *)
(* JavaScript values are represented as follows.  A string is a TLA+       *)
(* string; `undefined' and `null' in a string-typed slot are the two       *)
(* sentinels UNDEFINED and NULL, which no input string equals.  An         *)
(* optional number is a sequence of length at most one (<<>> is            *)
(* undefined).  An object literal is a function from its keys to values;   *)
(* object spread is Spread.  A call on a backend is a record               *)
(* [backend, method, name, props].  A function body is evaluated to an     *)
(* Outcome: the backend calls it made, in order, and whether it threw.     *)
(***************************************************************************)
EXTENDS Integers, Sequences, FiniteSets, TLC

VARIABLES
    gtag,             \* typeof window.gtag === 'function'
    rudder,           \* typeof window.rudderanalytics !== 'undefined'
    now,              \* Date.now(), in milliseconds
    hidden,           \* document.hidden
    pathname,         \* window.location.pathname
    search,           \* window.location.search, as its <<key, value>> pairs
    referrer,         \* document.referrer
    innerWidth,       \* window.innerWidth
    clickCounts,      \* the module's clickCounts object (own properties)
    pageVisibleStart, \* the module's pageVisibleStart
    visListeners,     \* registered 'visibilitychange' listeners
    errListeners,     \* registered 'error' / 'unhandledrejection' listener pairs
    storage,          \* localStorage item '9line_first_touch' (<<>> when absent)
    op,               \* name of the last operation
    opArgs,           \* its arguments
    calls,            \* backend calls the last operation made, in order
    threw,            \* whether the last operation threw
    ftCalls,          \* history: trackFirstTouch calls in this storage lifetime
    ftWrites,         \* history: setItem calls in this storage lifetime
    ftEmits,          \* history: 'First Touch' track calls in this storage lifetime
    firstStored,      \* history: the item as left by the lifetime's first call
    clicksOn,         \* history: detectRageClicks calls per identifier, this page
    firesOn,          \* history: 'Rage Click Detected' events per identifier
    sinceFire,        \* history: calls per identifier since its last event
    visibleMs,        \* history: milliseconds spent visible since last shown
    shownAt,          \* history: Date.now() at load or at the last show
    sawVisible        \* history: a transition to visible happened on this page

env  == <<gtag, rudder, now, hidden, pathname, search, referrer, innerWidth>>
mod  == <<clickCounts, pageVisibleStart, visListeners, errListeners>>
obs  == <<op, opArgs, calls, threw>>
ftHist   == <<ftCalls, ftWrites, ftEmits, firstStored>>
rageHist == <<clicksOn, firesOn, sinceFire>>
visHist  == <<visibleMs, shownAt, sawVisible>>
vars == <<env, mod, storage, obs, ftHist, rageHist, visHist>>

-----------------------------------------------------------------------------
(* JavaScript values *)

UNDEFINED == "<undefined>"
NULL == "<null>"

\* a || b on string-typed operands: undefined and '' are falsy
OrElse(a, b) == IF a \in {UNDEFINED, NULL, ""} THEN b ELSE a

\* obj?.key
Prop(obj, key) == IF key \in DOMAIN obj THEN obj[key] ELSE UNDEFINED

EmptyObject == [k \in {} |-> UNDEFINED]

\* { ...a, ...b }: later spreads overwrite earlier keys
Spread(a, b) ==
    [k \in (DOMAIN a) \cup (DOMAIN b) |-> IF k \in DOMAIN b THEN b[k] ELSE a[k]]

\* new Date().toISOString()
toISOString(t) == <<"ISO-8601", t>>

\* String.prototype.includes
includes(s, t) ==
    \E i \in 1..(Len(s) - Len(t) + 1) : SubSeq(s, i, i + Len(t) - 1) = t

UpperLetters == "ABCDEFGHIJKLMNOPQRSTUVWXYZ"
LowerLetters == "abcdefghijklmnopqrstuvwxyz"

LowerChar(c) ==
    IF \E i \in 1..Len(UpperLetters) : SubSeq(UpperLetters, i, i) = c
    THEN LET i == CHOOSE j \in 1..Len(UpperLetters) : SubSeq(UpperLetters, j, j) = c
         IN  SubSeq(LowerLetters, i, i)
    ELSE c

\* String.prototype.toLowerCase
RECURSIVE toLowerCase(_)
toLowerCase(s) ==
    IF Len(s) = 0 THEN ""
    ELSE LowerChar(SubSeq(s, 1, 1)) \o toLowerCase(SubSeq(s, 2, Len(s)))

\* index of the first occurrence of t in s at or after i, 0 when there is none
FirstIndex(s, t, i) ==
    LET hits == {j \in i..(Len(s) - Len(t) + 1) : SubSeq(s, j, j + Len(t) - 1) = t}
    IN  IF hits = {} THEN 0 ELSE CHOOSE j \in hits : \A h \in hits : j <= h

\* new URL(u).hostname for an absolute http(s) URL without port or credentials
hostname(u) ==
    LET a    == FirstIndex(u, "://", 1)
        from == a + 3
        b    == FirstIndex(u, "/", from)
    IN  IF b = 0 THEN SubSeq(u, from, Len(u)) ELSE SubSeq(u, from, b - 1)

\* URLSearchParams.get: the first value of the key, or null
ParamGet(params, key) ==
    LET hits == {i \in 1..Len(params) : params[i][1] = key}
    IN  IF hits = {} THEN NULL
        ELSE params[CHOOSE i \in hits : \A h \in hits : i <= h][2]

-----------------------------------------------------------------------------
(* Outcomes of function bodies *)

Call(b, m, n, p) == [backend |-> b, method |-> m, name |-> n, props |-> p]
Done(cs) == [calls |-> cs, threw |-> FALSE]
Nothing == Done(<<>>)
Thrown(cs) == [calls |-> cs, threw |-> TRUE]

\* statement sequencing: the second part runs only if the first did not throw
Then(a, b) ==
    IF a.threw THEN a ELSE [calls |-> a.calls \o b.calls, threw |-> b.threw]

-----------------------------------------------------------------------------
(* Google Analytics helpers *)

MeasurementId == "G-PWZM3DK5MW"
Origin == "https://9line.dev"
DocumentTitle == "9line"

isGtagAvailable == gtag

\* window.gtag(...): a TypeError when window.gtag is not a function
WindowGtag(m, n, p) ==
    IF gtag THEN Done(<<Call("gtag", m, n, p)>>) ELSE Thrown(<<>>)

trackPageView(url, title) ==
    IF ~isGtagAvailable THEN Nothing
    ELSE WindowGtag("config", MeasurementId,
                    [page_path |-> url, page_title |-> OrElse(title, DocumentTitle)])

trackEvent(action, category, label, value) ==
    IF ~isGtagAvailable THEN Nothing
    ELSE WindowGtag("event", action,
                    [event_category |-> category, event_label |-> label, value |-> value])

trackFormSubmission(formName, success) ==
    trackEvent(IF success THEN "form_submit_success" ELSE "form_submit_error",
               "engagement", formName, IF success THEN <<1>> ELSE <<0>>)

trackCTAClick(ctaName, location) ==
    trackEvent("cta_click", "engagement", ctaName \o " - " \o location, <<>>)

trackCompetitiveAnalysisRequest(email, domain) ==
    Then(trackEvent("competitive_analysis_request", "lead_generation",
                    OrElse(domain, "no_domain"), <<>>),
         WindowGtag("event", "conversion",
                    [send_to |-> MeasurementId, event_category |-> "lead_generation",
                     event_label |-> "free_analysis_form", user_id |-> email]))

trackPricingInteraction(plan, action) ==
    trackEvent("pricing_" \o action, "business", plan, <<>>)

trackTestimonialView(testimonialId) ==
    trackEvent("testimonial_view", "engagement", testimonialId, <<>>)

trackScrollDepth(percentage) ==
    trackEvent("scroll_depth", "engagement", ToString(percentage) \o "%", <<percentage>>)

trackTimeOnPage(seconds) ==
    trackEvent("time_on_page", "engagement", UNDEFINED, <<seconds>>)

trackPurchase(transactionId, value, items) ==
    IF ~isGtagAvailable THEN Nothing
    ELSE WindowGtag("event", "purchase",
                    [transaction_id |-> transactionId, value |-> <<value>>,
                     currency |-> "USD", items |-> items])

trackUserEngagement(engagementType, details) ==
    trackEvent(engagementType, "user_engagement", details, <<>>)

-----------------------------------------------------------------------------
(* RudderStack integration *)

isRudderStackAvailable == rudder

\* window.rudderanalytics!.m(...): a TypeError when rudderanalytics is undefined
WindowRudder(m, n, p) ==
    IF rudder THEN Done(<<Call("rudder", m, n, p)>>) ELSE Thrown(<<>>)

getDeviceType ==
    IF innerWidth < 768 THEN "mobile"
    ELSE IF innerWidth < 1024 THEN "tablet"
    ELSE "desktop"

\* a variant that tests the blog rule before the others
PageCategoryOfBlogFirst(p) ==
    LET path == toLowerCase(p)
    IN  IF path = "/" \/ path = "/index.html" THEN "home"
        ELSE IF includes(path, "/blog") THEN "blog"
        ELSE IF includes(path, "/pricing") THEN "pricing"
        ELSE IF includes(path, "/features") THEN "features"
        ELSE IF includes(path, "/about") THEN "about"
        ELSE IF includes(path, "/contact") THEN "contact"
        ELSE "other"

\* the page category of a path (getPageCategory reads window.location.pathname)
PageCategoryOf(p) ==
    LET path == toLowerCase(p)
    IN  IF path = "/" \/ path = "/index.html" THEN "home"
        ELSE IF includes(path, "/pricing") THEN "pricing"
        ELSE IF includes(path, "/features") THEN "features"
        ELSE IF includes(path, "/about") THEN "about"
        ELSE IF includes(path, "/contact") THEN "contact"
        ELSE IF includes(path, "/blog") THEN "blog"
        ELSE "other"

getPageCategory == PageCategoryOf(pathname)

trackDualEvent(eventName, properties) ==
    Then(trackEvent(eventName, OrElse(Prop(properties, "category"), "engagement"),
                    Prop(properties, "label"), <<>>),
         IF isRudderStackAvailable
         THEN WindowRudder("track", eventName,
                  Spread(properties,
                         [page_category |-> getPageCategory,
                          device_type |-> getDeviceType,
                          timestamp |-> toISOString(now)]))
         ELSE Nothing)

identifyUser(userId, traits) ==
    IF ~isRudderStackAvailable THEN Nothing
    ELSE WindowRudder("identify", userId,
                      Spread(traits, [identified_at |-> toISOString(now)]))

trackButtonClickDual(buttonText, category) ==
    trackDualEvent("Button Clicked",
                   [button_text |-> buttonText,
                    button_category |-> OrElse(category, "general"),
                    category |-> "engagement",
                    label |-> buttonText])

trackFormSubmitDual(formName, success) ==
    Then(trackFormSubmission(formName, success),
         IF isRudderStackAvailable
         THEN WindowRudder("track", IF success THEN "Form Submitted" ELSE "Form Error",
                           [form_name |-> formName, success |-> success])
         ELSE Nothing)

trackDemoRequestDual(email, formData) ==
    Then(trackCompetitiveAnalysisRequest(email, Prop(formData, "domain")),
         IF isRudderStackAvailable
         THEN WindowRudder("track", "Demo Requested",
                           Spread([email |-> email], formData))
         ELSE Nothing)

trackPricingInteractionDual(plan, action) ==
    Then(trackPricingInteraction(plan, action),
         IF isRudderStackAvailable
         THEN WindowRudder("track",
                           IF action = "view" THEN "Pricing Viewed"
                                              ELSE "Pricing Plan Selected",
                           [plan |-> plan, action |-> action])
         ELSE Nothing)

-----------------------------------------------------------------------------
(* Enhanced tracking *)

UtmKeys == {"utm_source", "utm_medium", "utm_campaign", "utm_content", "utm_term"}

\* getUTMParameters of a query string
UTMParametersOf(params) == [k \in UtmKeys |-> ParamGet(params, k)]

getUTMParameters == UTMParametersOf(search)

\* window.location.href
HrefOf(path, params) == [origin |-> Origin, pathname |-> path, search |-> params]

\* the parts of the environment the model holds fixed
Screen == [width |-> 1920, height |-> 1080]
InnerHeight == [px |-> 800]
Navigator == [language |-> "en-US", userAgent |-> "Mozilla/5.0",
              timeZone |-> "Europe/Paris", effectiveType |-> UNDEFINED]

\* `${a}x${b}`
Dimensions(a, b) == ToString(a) \o "x" \o ToString(b)

getEnrichedContext ==
    Spread(
      Spread(
        [device_type |-> getDeviceType,
         screen_resolution |-> Dimensions(Screen.width, Screen.height),
         viewport_size |-> Dimensions(innerWidth, InnerHeight.px),
         browser_language |-> Navigator.language,
         timezone |-> Navigator.timeZone,
         user_agent |-> Navigator.userAgent,
         page_category |-> getPageCategory,
         page_url |-> HrefOf(pathname, search),
         page_path |-> pathname,
         page_title |-> DocumentTitle,
         referrer |-> referrer,
         referrer_domain |-> IF referrer # "" THEN hostname(referrer) ELSE NULL],
        getUTMParameters),
      [connection_type |-> OrElse(Navigator.effectiveType, "unknown"),
       timestamp |-> toISOString(now)])

\* the enrichedProps object of trackEnhanced
EnrichedPropsKeepContext(context, properties) == Spread(properties, context)

EnrichedProps(context, properties) == Spread(context, properties)

trackEnhanced(eventName, properties) ==
    LET enrichedProps == EnrichedProps(getEnrichedContext, properties)
    IN  Then(trackEvent(eventName,
                        OrElse(Prop(enrichedProps, "category"), "engagement"),
                        Prop(enrichedProps, "label"), <<>>),
             IF isRudderStackAvailable
             THEN WindowRudder("track", eventName, enrichedProps)
             ELSE Nothing)

-----------------------------------------------------------------------------
(* First-touch attribution *)

\* JSON.stringify of the record: every field is a string or null, so all are kept
JSONstringify(rec) == [json |-> rec]

\* !localStorage.getItem(FIRST_TOUCH_KEY): getItem is null when there is no item
\* (the only writer stores a non-empty JSON text)
FirstTouchMissing(item) == Len(item) = 0

FirstTouchRecord(params, ref, path, t) ==
    Spread(UTMParametersOf(params),
           [referrer |-> ref, landing_page |-> HrefOf(path, params),
            timestamp |-> toISOString(t)])

\* a variant that stores the record on every call
trackFirstTouchOverwrite(item, params, ref, path, t, rud) ==
    LET firstTouch == FirstTouchRecord(params, ref, path, t)
    IN  [item  |-> <<JSONstringify(firstTouch)>>,
         wrote |-> 1,
         out   |-> IF FirstTouchMissing(item) /\ rud
                   THEN Done(<<Call("rudder", "track", "First Touch", firstTouch)>>)
                   ELSE Nothing]

\* a variant that sends the event outside the storage guard
trackFirstTouchResend(item, params, ref, path, t, rud) ==
    LET firstTouch == FirstTouchRecord(params, ref, path, t)
    IN  [item  |-> IF FirstTouchMissing(item) THEN <<JSONstringify(firstTouch)>> ELSE item,
         wrote |-> IF FirstTouchMissing(item) THEN 1 ELSE 0,
         out   |-> IF rud
                   THEN Done(<<Call("rudder", "track", "First Touch", firstTouch)>>)
                   ELSE Nothing]

\* trackFirstTouch on the given storage item and environment: the item it
\* leaves, the number of setItem calls and the backend calls
trackFirstTouch(item, params, ref, path, t, rud) ==
    IF FirstTouchMissing(item)
    THEN LET firstTouch == FirstTouchRecord(params, ref, path, t)
         IN  [item  |-> <<JSONstringify(firstTouch)>>,
              wrote |-> 1,
              out   |-> IF rud
                        THEN Done(<<Call("rudder", "track", "First Touch", firstTouch)>>)
                        ELSE Nothing]
    ELSE [item |-> item, wrote |-> 0, out |-> Nothing]

-----------------------------------------------------------------------------
(* Rage clicks *)

RageThreshold == 5

\* property names every object literal inherits from Object.prototype
\* (one representative; toString, valueOf, hasOwnProperty, ... behave alike)
ObjectPrototypeKeys == {"constructor"}

Num(n) == <<"number", n>>

\* element.id || element.className || 'unknown'
ElementId(element) == OrElse(element.id, OrElse(element.className, "unknown"))

\* clickCounts[elementId]: the own property, else the inherited one, else undefined
ReadCount(counts, k) ==
    IF k \in DOMAIN counts THEN counts[k]
    ELSE IF k \in ObjectPrototypeKeys THEN <<"function", 0>>
    ELSE <<"undefined", 0>>

\* (v || 0) + 1: a number is incremented, undefined and 0 give 1, and a
\* function or a string is truthy and is concatenated with "1" into a string
PlusOne(v) ==
    IF v[1] = "number" THEN Num(v[2] + 1)
    ELSE IF v[1] = "undefined" THEN Num(1)
    ELSE <<"string", 0>>

RageReachedStrict(v) == v[1] = "number" /\ v[2] > RageThreshold

\* clickCounts[elementId] >= 5: a non-numeric string converts to NaN, never >= 5
RageReached(v) == v[1] = "number" /\ v[2] >= RageThreshold

\* clickCounts after detectRageClicks on identifier k
CountsAfterClick(counts, k) ==
    LET v == PlusOne(ReadCount(counts, k))
    IN  [j \in (DOMAIN counts) \cup {k} |->
            IF j = k THEN (IF RageReached(v) THEN Num(0) ELSE v) ELSE counts[j]]

detectRageClicks(element) ==
    LET elementId == ElementId(element)
        v == PlusOne(ReadCount(clickCounts, elementId))
    IN  IF RageReached(v)
        THEN trackEnhanced("Rage Click Detected",
                           [element_id |-> elementId, click_count |-> v])
        ELSE Nothing

-----------------------------------------------------------------------------
(* Error and visibility listeners *)

\* n listeners run one after the other; a throwing listener does not stop the rest
RECURSIVE Dispatch(_, _)
Dispatch(out, n) ==
    IF n = 0 THEN Nothing
    ELSE LET rest == Dispatch(out, n - 1)
         IN  [calls |-> out.calls \o rest.calls, threw |-> out.threw \/ rest.threw]

OnError(event) ==
    trackEnhanced("JavaScript Error",
                  [error_message |-> event.message, error_source |-> event.filename,
                   error_line |-> event.lineno, error_column |-> event.colno])

\* event.reason?.message || event.reason; a reason is [message, text], where
\* message is UNDEFINED for a reason that is not an Error and text is the reason
OnUnhandledRejection(reason) ==
    trackEnhanced("Promise Rejection",
                  [error_message |-> OrElse(reason.message, reason.text)])

\* Math.floor((Date.now() - pageVisibleStart) / 1000)
VisibleDuration(t, start) == (t - start) \div 1000

\* a variant that measures from a timer never reset
StartAfterShowKeep(t, start) == start

\* a variant that resets the timer to the epoch
StartAfterShowEpoch(t, start) == 0

\* pageVisibleStart after the listener ran on a transition to visible
StartAfterShow(t, start) == t

\* the 'visibilitychange' listener's events, document.hidden being h
OnVisibilityChange(h) ==
    IF h
    THEN trackEnhanced("Page Hidden",
             [visible_duration_seconds |-> VisibleDuration(now, pageVisibleStart)])
    ELSE trackEnhanced("Page Visible", EmptyObject)

-----------------------------------------------------------------------------
(* Bounds and input sets *)

MaxNow == 2400        \* the clock stops advancing here
MaxClicks == 12       \* detectRageClicks calls per page
MaxListeners == 2     \* registrations of each listener
MaxFtCalls == 3       \* the history counter ftCalls saturates here
MaxDepth == 2         \* path segments

Min(a, b) == IF a < b THEN a ELSE b

RECURSIVE SumOver(_, _)
SumOver(f, S) ==
    IF S = {} THEN 0
    ELSE LET x == CHOOSE y \in S : TRUE IN f[x] + SumOver(f, S \ {x})

Referrers == {"", "https://www.google.com/search"}
LandingPaths == {"/", "/pricing/enterprise"}
LandingSearches == { <<>>, << <<"ref", "z">>, <<"utm_source", "a">>, <<"utm_source", "b">> >> }

Segments == {"", "index.html", "pricing", "Pricing", "features", "about", "contact",
             "blog", "BLOG", "unknown-page", "pricing-update", "enterprise", "xabout"}

\* the number of '/' in a path
Depth(p) == Cardinality({i \in 1..Len(p) : SubSeq(p, i, i) = "/"})

\* where a link on the page at path p may lead: one segment deeper, or to a
\* top-level page
Links(p) ==
    {"/" \o seg : seg \in Segments}
    \cup (IF Depth(p) < MaxDepth THEN {p \o "/" \o seg : seg \in Segments} ELSE {})

Elements == { [id |-> "cta", className |-> "btn"],
              [id |-> "", className |-> "nav-link"],
              [id |-> "", className |-> ""],
              [id |-> "constructor", className |-> "btn"] }

Ids == {ElementId(e) : e \in Elements}

PropertyBags == { EmptyObject,
                  [category |-> "business", label |-> "hero"],
                  [category |-> "", plan |-> "pro"],
                  [device_type |-> "kiosk", page_category |-> "override", label |-> "x"] }

FormData == { EmptyObject, [domain |-> "acme.io"], [domain |-> "", email |-> "other@x.io"] }

Reasons == { [message |-> "bad", text |-> "Error: bad"],
             [message |-> UNDEFINED, text |-> "rejected"] }

-----------------------------------------------------------------------------
(* Operations *)

Observe(name, args, out) ==
    /\ op' = name
    /\ opArgs' = args
    /\ calls' = out.calls
    /\ threw' = out.threw

\* an emission function changes no state of the page or the module
Quiet == UNCHANGED <<env, mod, storage, ftHist, rageHist, visHist>>

\* calls on the RudderStack track method with the given event name
TrackCalls(cs, name) ==
    {i \in 1..Len(cs) : cs[i].backend = "rudder" /\ cs[i].method = "track"
                        /\ cs[i].name = name}

TrackPageView ==
    \E url \in {"/pricing"}, title \in {UNDEFINED, "Pricing"} :
        /\ Observe("trackPageView", <<url, title>>, trackPageView(url, title))
        /\ Quiet

TrackEvent ==
    \E label \in {UNDEFINED, "hero"}, value \in {<<>>, <<3>>} :
        /\ Observe("trackEvent", <<label, value>>, trackEvent("click", "ui", label, value))
        /\ Quiet

TrackFormSubmission ==
    \E success \in BOOLEAN :
        /\ Observe("trackFormSubmission", <<success>>, trackFormSubmission("signup", success))
        /\ Quiet

TrackCTAClick ==
    /\ Observe("trackCTAClick", <<>>, trackCTAClick("Start", "hero"))
    /\ Quiet

TrackCompetitiveAnalysisRequest ==
    \E domain \in {UNDEFINED, "acme.io"} :
        /\ Observe("trackCompetitiveAnalysisRequest", <<domain>>,
             trackCompetitiveAnalysisRequest("a@acme.io", domain))
        /\ Quiet

TrackPricingInteraction ==
    \E action \in {"view", "click"} :
        /\ Observe("trackPricingInteraction", <<action>>, trackPricingInteraction("pro", action))
        /\ Quiet

TrackTestimonialView ==
    /\ Observe("trackTestimonialView", <<>>, trackTestimonialView("t1"))
    /\ Quiet

TrackScrollDepth ==
    \E percentage \in {25, 100} :
        /\ Observe("trackScrollDepth", <<percentage>>, trackScrollDepth(percentage))
        /\ Quiet

TrackTimeOnPage ==
    \E seconds \in {30} :
        /\ Observe("trackTimeOnPage", <<seconds>>, trackTimeOnPage(seconds))
        /\ Quiet

TrackPurchase ==
    /\ Observe("trackPurchase", <<>>, trackPurchase("tx1", 99, <<"pro">>))
    /\ Quiet

TrackUserEngagement ==
    \E details \in {UNDEFINED, "video"} :
        /\ Observe("trackUserEngagement", <<details>>, trackUserEngagement("play", details))
        /\ Quiet

IdentifyUser ==
    \E traits \in {EmptyObject, [plan |-> "pro"]} :
        /\ Observe("identifyUser", traits, identifyUser("u1", traits))
        /\ Quiet

TrackDualEvent ==
    \E properties \in PropertyBags :
        /\ Observe("trackDualEvent", properties, trackDualEvent("Signup", properties))
        /\ Quiet

TrackButtonClickDual ==
    \E category \in {UNDEFINED, "nav"} :
        /\ Observe("trackButtonClickDual", <<category>>, trackButtonClickDual("Start", category))
        /\ Quiet

TrackFormSubmitDual ==
    \E success \in BOOLEAN :
        /\ Observe("trackFormSubmitDual", <<success>>, trackFormSubmitDual("signup", success))
        /\ Quiet

TrackDemoRequestDual ==
    \E formData \in FormData :
        /\ Observe("trackDemoRequestDual", formData, trackDemoRequestDual("a@acme.io", formData))
        /\ Quiet

TrackPricingInteractionDual ==
    \E action \in {"view", "click"} :
        /\ Observe("trackPricingInteractionDual", <<action>>,
             trackPricingInteractionDual("pro", action))
        /\ Quiet

TrackEnhanced ==
    \E properties \in PropertyBags :
        /\ Observe("trackEnhanced", properties, trackEnhanced("Signup", properties))
        /\ Quiet

\* the window 'error' event, delivered to every registered listener
ErrorEvent ==
    LET event == [message |-> "x is not defined", filename |-> "app.js",
                  lineno |-> 10, colno |-> 4]
    IN  /\ Observe("error", event, Dispatch(OnError(event), errListeners))
        /\ Quiet

\* the window 'unhandledrejection' event
UnhandledRejection ==
    \E reason \in Reasons :
        /\ Observe("unhandledrejection", reason,
             Dispatch(OnUnhandledRejection(reason), errListeners))
        /\ Quiet

SetupErrorTracking ==
    /\ errListeners < MaxListeners
    /\ errListeners' = errListeners + 1
    /\ Observe("setupErrorTracking", <<>>, Nothing)
    /\ UNCHANGED <<env, clickCounts, pageVisibleStart, visListeners, storage,
                   ftHist, rageHist, visHist>>

SetupVisibilityTracking ==
    /\ visListeners < MaxListeners
    /\ visListeners' = visListeners + 1
    /\ Observe("setupVisibilityTracking", <<>>, Nothing)
    /\ UNCHANGED <<env, clickCounts, pageVisibleStart, errListeners, storage,
                   ftHist, rageHist, visHist>>

\* the exported trackFirstTouch, called by the host page
TrackFirstTouch ==
    LET ft == trackFirstTouch(storage, search, referrer, pathname, now, rudder)
    IN  /\ storage' = ft.item
        /\ Observe("trackFirstTouch", <<>>, ft.out)
        /\ ftCalls' = Min(ftCalls + 1, MaxFtCalls)
        /\ ftWrites' = ftWrites + ft.wrote
        /\ ftEmits' = ftEmits + Cardinality(TrackCalls(ft.out.calls, "First Touch"))
        /\ firstStored' = IF ftCalls = 0 THEN ft.item ELSE firstStored
        /\ UNCHANGED <<env, mod, rageHist, visHist>>

DetectRageClicks ==
    \E element \in Elements :
        LET k == ElementId(element)
            out == detectRageClicks(element)
            fired == RageReached(PlusOne(ReadCount(clickCounts, k)))
            total == clicksOn[k] + 1
        IN  /\ SumOver(clicksOn, Ids) < MaxClicks
            /\ clickCounts' = CountsAfterClick(clickCounts, k)
            /\ Observe("detectRageClicks", element, out)
            /\ clicksOn' = [clicksOn EXCEPT ![k] = total]
            /\ firesOn' = [firesOn EXCEPT ![k] = @ + (IF fired THEN 1 ELSE 0)]
            /\ sinceFire' = [sinceFire EXCEPT ![k] = IF fired THEN 0 ELSE @ + 1]
            /\ UNCHANGED <<env, pageVisibleStart, visListeners, errListeners, storage,
                           ftHist, visHist>>

\* the document 'visibilitychange' event: document.hidden flips and every
\* registered listener runs
VisibilityChange ==
    /\ hidden' = ~hidden
    /\ pageVisibleStart' = IF ~hidden' /\ visListeners > 0
                           THEN StartAfterShow(now, pageVisibleStart)
                           ELSE pageVisibleStart
    /\ Observe("visibilitychange", <<>>, Dispatch(OnVisibilityChange(hidden'), visListeners))
    /\ visibleMs' = IF hidden' THEN visibleMs ELSE 0
    /\ shownAt' = IF hidden' THEN shownAt ELSE now
    /\ sawVisible' = (sawVisible \/ ~hidden')
    /\ UNCHANGED <<gtag, rudder, now, pathname, search, referrer, innerWidth,
                   clickCounts, visListeners, errListeners, storage, ftHist, rageHist>>

-----------------------------------------------------------------------------
(* The environment *)

\* time passes (the clock is taken to be monotonic)
Tick(d) ==
    /\ now + d <= MaxNow
    /\ now' = now + d
    /\ visibleMs' = IF hidden THEN visibleMs ELSE visibleMs + d
    /\ Observe("tick", <<>>, Nothing)
    /\ UNCHANGED <<gtag, rudder, hidden, pathname, search, referrer, innerWidth,
                   mod, storage, ftHist, rageHist, shownAt, sawVisible>>

\* the gtag script finishes loading
GtagLoaded ==
    /\ ~gtag
    /\ gtag' = TRUE
    /\ Observe("gtagLoaded", <<>>, Nothing)
    /\ UNCHANGED <<rudder, now, hidden, pathname, search, referrer, innerWidth,
                   mod, storage, ftHist, rageHist, visHist>>

\* the RudderStack script finishes loading
RudderLoaded ==
    /\ ~rudder
    /\ rudder' = TRUE
    /\ Observe("rudderLoaded", <<>>, Nothing)
    /\ UNCHANGED <<gtag, now, hidden, pathname, search, referrer, innerWidth,
                   mod, storage, ftHist, rageHist, visHist>>

Resize(W) ==
    \E w \in W :
        /\ w # innerWidth
        /\ innerWidth' = w
        /\ Observe("resize", <<>>, Nothing)
        /\ UNCHANGED <<gtag, rudder, now, hidden, pathname, search, referrer,
                       mod, storage, ftHist, rageHist, visHist>>

\* history.pushState: the location changes without a page load
Navigate(P, S) ==
    \E p \in P, s \in S :
        /\ <<p, s>> # <<pathname, search>>
        /\ pathname' = p
        /\ search' = s
        /\ Observe("navigate", <<>>, Nothing)
        /\ UNCHANGED <<gtag, rudder, now, hidden, referrer, innerWidth,
                       mod, storage, ftHist, rageHist, visHist>>

\* the user clears the site's storage: a new storage lifetime begins
ClearStorage ==
    /\ Len(storage) > 0
    /\ storage' = <<>>
    /\ Observe("clearStorage", <<>>, Nothing)
    /\ ftCalls' = 0
    /\ ftWrites' = 0
    /\ ftEmits' = 0
    /\ firstStored' = <<>>
    /\ UNCHANGED <<env, mod, rageHist, visHist>>

\* a page load: the module is evaluated afresh (clickCounts = {},
\* pageVisibleStart = Date.now()), then trackFirstTouch, setupErrorTracking and
\* setupVisibilityTracking run; localStorage persists
PageLoad(G, R, H, P, S, F, W) ==
    \E g \in G, r \in R, h \in H, p \in P, s \in S, f \in F, w \in W :
        LET ft == trackFirstTouch(storage, s, f, p, now, r)
        IN  /\ gtag' = g /\ rudder' = r /\ hidden' = h
            /\ pathname' = p /\ search' = s /\ referrer' = f /\ innerWidth' = w
            /\ now' = now
            /\ clickCounts' = EmptyObject
            /\ pageVisibleStart' = now
            /\ errListeners' = 1
            /\ visListeners' = 1
            /\ storage' = ft.item
            /\ Observe("load", <<>>, ft.out)
            /\ ftCalls' = Min(ftCalls + 1, MaxFtCalls)
            /\ ftWrites' = ftWrites + ft.wrote
            /\ ftEmits' = ftEmits + Cardinality(TrackCalls(ft.out.calls, "First Touch"))
            /\ firstStored' = IF ftCalls = 0 THEN ft.item ELSE firstStored
            /\ clicksOn' = [k \in Ids |-> 0]
            /\ firesOn' = [k \in Ids |-> 0]
            /\ sinceFire' = [k \in Ids |-> 0]
            /\ visibleMs' = 0
            /\ shownAt' = now
            /\ sawVisible' = FALSE

\* the state after the first page load of a fresh storage lifetime
InitWith(G, R, H, P, S, F, W, T) ==
    /\ gtag \in G /\ rudder \in R /\ hidden \in H
    /\ pathname \in P /\ search \in S /\ referrer \in F /\ innerWidth \in W
    /\ now \in T
    /\ clickCounts = EmptyObject
    /\ pageVisibleStart = now
    /\ errListeners = 1
    /\ visListeners = 1
    /\ LET ft == trackFirstTouch(<<>>, search, referrer, pathname, now, rudder)
       IN  /\ storage = ft.item
           /\ op = "load" /\ opArgs = <<>>
           /\ calls = ft.out.calls /\ threw = ft.out.threw
           /\ ftCalls = 1
           /\ ftWrites = ft.wrote
           /\ ftEmits = Cardinality(TrackCalls(ft.out.calls, "First Touch"))
           /\ firstStored = ft.item
    /\ clicksOn = [k \in Ids |-> 0]
    /\ firesOn = [k \in Ids |-> 0]
    /\ sinceFire = [k \in Ids |-> 0]
    /\ visibleMs = 0
    /\ shownAt = now
    /\ sawVisible = FALSE

-----------------------------------------------------------------------------
(* Specifications *)

\* the emission functions under every backend availability
InitEmit ==
    InitWith(BOOLEAN, BOOLEAN, {FALSE}, {"/"}, {<<>>},
             {"https://www.google.com/search"}, {1024}, {0})

NextEmit ==
    \/ TrackPageView \/ TrackEvent \/ TrackFormSubmission \/ TrackCTAClick
    \/ TrackCompetitiveAnalysisRequest \/ TrackPricingInteraction
    \/ TrackTestimonialView \/ TrackScrollDepth \/ TrackTimeOnPage
    \/ TrackPurchase \/ TrackUserEngagement \/ IdentifyUser
    \/ TrackDualEvent \/ TrackButtonClickDual \/ TrackFormSubmitDual
    \/ TrackDemoRequestDual \/ TrackPricingInteractionDual \/ TrackEnhanced
    \/ ErrorEvent \/ UnhandledRejection \/ SetupErrorTracking
    \/ GtagLoaded \/ RudderLoaded
    \/ Resize({767, 1024})
    \/ Navigate({"/", "/Blog/pricing-update"}, {<<>>})
    \/ Tick(2000)

SpecEmit == InitEmit /\ [][NextEmit]_vars

\* first-touch attribution across page loads and storage lifetimes
InitFirstTouch ==
    InitWith(BOOLEAN, BOOLEAN, {FALSE}, LandingPaths, LandingSearches, Referrers,
             {1024}, {0})

NextFirstTouch ==
    \/ PageLoad(BOOLEAN, BOOLEAN, {FALSE}, LandingPaths, LandingSearches, Referrers,
                {1024})
    \/ TrackFirstTouch
    \/ RudderLoaded
    \/ Navigate(LandingPaths, LandingSearches)
    \/ Tick(1500)
    \/ ClearStorage

SpecFirstTouch == InitFirstTouch /\ [][NextFirstTouch]_vars

\* rage clicks on several elements of one page, and page reloads
InitRage ==
    InitWith(BOOLEAN, BOOLEAN, {FALSE}, {"/"}, {<<>>}, {""}, {1024}, {0})

NextRage ==
    \/ DetectRageClicks
    \/ GtagLoaded
    \/ RudderLoaded
    \/ PageLoad({TRUE}, {FALSE}, {FALSE}, {"/"}, {<<>>}, {""}, {1024})

SpecRage == InitRage /\ [][NextRage]_vars

\* tab switching while time passes
InitVisibility ==
    InitWith({TRUE}, BOOLEAN, BOOLEAN, {"/"}, {<<>>}, {""}, {1024}, {0})

NextVisibility ==
    \/ VisibilityChange
    \/ Tick(400)
    \/ Tick(700)
    \/ SetupVisibilityTracking
    \/ RudderLoaded
    \/ PageLoad({TRUE}, BOOLEAN, BOOLEAN, {"/"}, {<<>>}, {""}, {1024})

SpecVisibility == InitVisibility /\ [][NextVisibility]_vars

\* getPageCategory over paths
GetPageCategory ==
    /\ Observe("getPageCategory", getPageCategory, Nothing)
    /\ Quiet

InitCategory ==
    InitWith({TRUE}, {TRUE}, {FALSE}, {"/"}, {<<>>}, {""}, {1024}, {0})

NextCategory ==
    \/ GetPageCategory
    \/ Navigate(Links(pathname), {<<>>})

SpecCategory == InitCategory /\ [][NextCategory]_vars

Spec == SpecEmit

-----------------------------------------------------------------------------
(* Claims *)

EmissionOps ==
    {"trackPageView", "trackEvent", "trackFormSubmission", "trackCTAClick",
     "trackCompetitiveAnalysisRequest", "trackPricingInteraction",
     "trackTestimonialView", "trackScrollDepth", "trackTimeOnPage", "trackPurchase",
     "trackUserEngagement", "identifyUser", "trackDualEvent", "trackButtonClickDual",
     "trackFormSubmitDual", "trackDemoRequestDual", "trackPricingInteractionDual",
     "trackEnhanced"}

DualOps ==
    {"trackDualEvent", "trackButtonClickDual", "trackFormSubmitDual",
     "trackDemoRequestDual", "trackPricingInteractionDual", "trackEnhanced"}

CallsOn(cs, b) == {i \in 1..Len(cs) : cs[i].backend = b}

\* C1: every exported emission function completes without throwing and calls
\* no backend that is absent, whatever the availability of gtag and of
\* rudderanalytics.
C1_NoThrowWhenBackendAbsent ==
    op \in EmissionOps =>
        /\ ~threw
        /\ (~gtag => CallsOn(calls, "gtag") = {})
        /\ (~rudder => CallsOn(calls, "rudder") = {})

\* C2: under partial availability every dual-tracking function forwards to the
\* backend that is present: gtag only gives its gtag calls, rudderanalytics
\* only gives exactly one rudderanalytics.track call.
C2_PartialAvailabilityForwards ==
    op \in DualOps =>
        /\ (gtag /\ ~rudder =>
               /\ CallsOn(calls, "gtag") # {}
               /\ CallsOn(calls, "rudder") = {})
        /\ (~gtag /\ rudder =>
               /\ Len(calls) = 1
               /\ calls[1].backend = "rudder"
               /\ calls[1].method = "track")

\* the keys of getEnrichedContext's object
ContextKeys ==
    {"device_type", "screen_resolution", "viewport_size", "browser_language",
     "timezone", "user_agent", "page_category", "page_url", "page_path", "page_title",
     "referrer", "referrer_domain", "connection_type", "timestamp"} \cup UtmKeys

\* C7: trackEnhanced computes the enriched context afresh, lets the caller's
\* properties win on every key they share, sends the gtag event with the merged
\* payload's category (default 'engagement') and label, and hands exactly the
\* merged payload to rudderanalytics.track.
C7_EnhancedPayload ==
    op = "trackEnhanced" =>
        LET properties == opArgs
            category == IF "category" \in DOMAIN properties /\ properties.category # ""
                        THEN properties.category ELSE "engagement"
            label == IF "label" \in DOMAIN properties THEN properties.label ELSE UNDEFINED
            g == CallsOn(calls, "gtag")
            r == CallsOn(calls, "rudder")
        IN  /\ ~threw
            /\ Cardinality(g) = (IF gtag THEN 1 ELSE 0)
            /\ Cardinality(r) = (IF rudder THEN 1 ELSE 0)
            /\ \A i \in g :
                  /\ calls[i].method = "event" /\ calls[i].name = "Signup"
                  /\ calls[i].props.event_category = category
                  /\ calls[i].props.event_label = label
                  /\ \A j \in r : i < j
            /\ \A i \in r :
                  LET payload == calls[i].props
                  IN  /\ calls[i].method = "track" /\ calls[i].name = "Signup"
                      /\ DOMAIN payload = ContextKeys \cup DOMAIN properties
                      /\ \A k \in DOMAIN properties : payload[k] = properties[k]
                      /\ \A k \in ContextKeys \ DOMAIN properties :
                            payload[k] = getEnrichedContext[k]
                      /\ "timestamp" \notin DOMAIN properties
                            => payload.timestamp = toISOString(now)
                      /\ "page_path" \notin DOMAIN properties
                            => payload.page_path = pathname
                      /\ "device_type" \notin DOMAIN properties
                            => (payload.device_type = "mobile") = (innerWidth < 768)

\* a call with colliding keys, both backends present, after the viewport, the
\* location and the clock changed since the page loaded
C7_Witness ==
    /\ op = "trackEnhanced"
    /\ gtag /\ rudder
    /\ "device_type" \in DOMAIN opArgs
    /\ innerWidth = 767 /\ now > 0 /\ pathname # "/"
    /\ Len(calls) = 2
    /\ calls[2].props.device_type = "kiosk"
    /\ calls[2].props.page_category = "override"
    /\ calls[2].props.page_path = pathname

\* identifiers whose counter is zero (undefined) on a fresh page
ZeroStart(k) == ReadCount(EmptyObject, k)[1] = "undefined"

RageEvents(cs, b) == {i \in CallsOn(cs, b) : cs[i].name = "Rage Click Detected"}

Numeric(v) == v[1] = "number"

\* C10: a detectRageClicks call for identifier k changes only k's counter, the
\* event for k fires exactly when the calls on k since its last reset reach 5,
\* and no counter decreases except by the reset to 0 on firing.
C10_IndependentCounters ==
    [][ op' = "detectRageClicks" =>
          LET k == ElementId(opArgs')
              fired == firesOn'[k] = firesOn[k] + 1
          IN  /\ \A j \in Ids \ {k} :
                    ReadCount(clickCounts', j) = ReadCount(clickCounts, j)
              /\ fired <=> (sinceFire[k] + 1 = RageThreshold)
              /\ \A j \in Ids :
                    (/\ Numeric(ReadCount(clickCounts, j))
                     /\ Numeric(ReadCount(clickCounts', j))
                     /\ ReadCount(clickCounts', j)[2] < ReadCount(clickCounts, j)[2])
                    => (j = k /\ fired /\ ReadCount(clickCounts', j) = Num(0))
      ]_vars

\* C4: in one storage lifetime the item is written exactly once, and after
\* every later trackFirstTouch call it is the record the first call stored.
C4_FirstTouchWrittenOnce ==
    ftCalls >= 1 =>
        /\ ftWrites = 1
        /\ Len(storage) = 1
        /\ storage = firstStored

\* a later page load with another URL, referrer and time left the record alone
C4_Witness ==
    /\ op = "load"
    /\ ftCalls >= 2
    /\ Len(storage) = 1
    /\ storage[1].json.landing_page # HrefOf(pathname, search)
    /\ storage[1].json.referrer # referrer
    /\ storage[1].json.timestamp # toISOString(now)

FirstTouchSent == TrackCalls(calls, "First Touch") # {}

\* C9: in one storage lifetime 'First Touch' is sent at most once, only by the
\* trackFirstTouch call that writes the record, and never once the record
\* exists, even when rudderanalytics was absent at the write and loaded later.
C9_FirstTouchSentOnce ==
    [][ op' # "clearStorage" =>
          /\ ftEmits' <= 1
          /\ FirstTouchSent' =>
                /\ op' \in {"load", "trackFirstTouch"}
                /\ Len(storage) = 0
                /\ Len(storage') = 1
                /\ ftWrites' = ftWrites + 1
                /\ ftEmits' = ftEmits + 1
          /\ Len(storage) > 0 => (~FirstTouchSent' /\ ftEmits' = ftEmits)
      ]_vars

\* the record was written while rudderanalytics was absent, rudderanalytics is
\* present now, and a later call sent nothing
C9_Witness ==
    /\ op \in {"load", "trackFirstTouch"}
    /\ ftCalls >= 2
    /\ rudder
    /\ Len(storage) = 1
    /\ ftEmits = 0
    /\ calls = <<>>

PageHiddenEvents == TrackCalls(calls, "Page Hidden")

\* C5: on every change to hidden, visible_duration_seconds is the floor of the
\* seconds since the page was last shown (or loaded); hidden time is not counted.
C5_VisibleDuration ==
    (op = "visibilitychange" /\ hidden) =>
        /\ rudder => Cardinality(PageHiddenEvents) = visListeners
        /\ \A i \in PageHiddenEvents :
              /\ calls[i].props.visible_duration_seconds = visibleMs \div 1000
              /\ calls[i].props.visible_duration_seconds = (now - shownAt) \div 1000

\* hidden after having been hidden and shown before, a fractional number of
\* seconds after the show
C5_Witness ==
    /\ op = "visibilitychange" /\ hidden
    /\ rudder
    /\ sawVisible
    /\ shownAt > 0
    /\ visibleMs > 1000 /\ visibleMs % 1000 # 0
    /\ PageHiddenEvents # {}

\* C8 as stated: the timer is only reset forward, on each transition to
\* visible, and no transition to hidden reads it without a preceding transition
\* to visible on the same page.
C8_ReadOnlyAfterVisibleTransition ==
    [][ /\ pageVisibleStart' >= pageVisibleStart
        /\ (op' = "visibilitychange" /\ ~hidden') => pageVisibleStart' = now'
        /\ (op' = "visibilitychange" /\ hidden') => sawVisible
      ]_vars

\* C8, amended: the timer is only reset forward, by the module load and by
\* each transition to visible, and a transition to hidden reads the value set
\* by the most recent of these.
C8_TimerResetForward ==
    [][ /\ pageVisibleStart' >= pageVisibleStart
        /\ pageVisibleStart' # pageVisibleStart =>
              (op' = "load" \/ (op' = "visibilitychange" /\ ~hidden'))
        /\ (op' = "visibilitychange" /\ ~hidden') => pageVisibleStart' = now'
        /\ (op' = "visibilitychange" /\ hidden') =>
              (pageVisibleStart = shownAt /\ pageVisibleStart' = pageVisibleStart)
      ]_vars

\* the timer was reset by a show later than the load and then read by a hide
C8_Witness ==
    /\ op = "visibilitychange" /\ hidden
    /\ sawVisible
    /\ pageVisibleStart = shownAt
    /\ pageVisibleStart > 0
    /\ now > pageVisibleStart

PriorityOrder == <<"home", "pricing", "features", "about", "contact", "blog">>

RuleMatches(rule, path) ==
    IF rule = "home" THEN path \in {"/", "/index.html"}
    ELSE includes(path, "/" \o rule)

FirstMatch(path) ==
    LET hits == {i \in 1..Len(PriorityOrder) : RuleMatches(PriorityOrder[i], path)}
    IN  IF hits = {} THEN "other"
        ELSE PriorityOrder[CHOOSE i \in hits : \A h \in hits : i <= h]

\* C6: getPageCategory is the first rule, in the order home, pricing, features,
\* about, contact, blog, that matches the lower-cased path, else 'other'.
C6_PageCategoryPriority ==
    op = "getPageCategory" =>
        /\ opArgs = FirstMatch(toLowerCase(pathname))
        /\ pathname = "/blog/pricing-update" => opArgs = "pricing"
        /\ pathname = "/pricing/enterprise" => opArgs = "pricing"
        /\ pathname = "/" => opArgs = "home"
        /\ pathname = "/unknown-page" => opArgs = "other"

\* a path that matches two rules, in upper case
C6_Witness ==
    /\ op = "getPageCategory"
    /\ pathname = "/BLOG/Pricing"
    /\ opArgs = "pricing"

====
